---- MODULE Spec2Model ----
(***************************************************************************)
(* QuickNotes: the Home component (note list, draft form, session) over a  *)
(* hosted backend (auth + one "notes" table), and the note validator.      *)
(*                                                                         *)
(* Strings are run-length encoded: a string is a sequence of runs          *)
(* [ch |-> c, n |-> k] (k > 0 copies of the character c), so that the      *)
(* validator's limits (80 and 5000 characters) are checked at their real   *)
(* values.  A character c is written as itself ("A", " ", "\n") or, where   *)
(* it has no literal here, as its code point ("U+00A0").                   *)
(***************************************************************************)
EXTENDS Integers, Sequences, FiniteSets, TLC

----------------------------------------------------------------------------
(* Strings *)

\* what String.prototype.trim removes: the WhiteSpace and LineTerminator
\* code points of ECMAScript (tab, VT, FF, space, NBSP, BOM, the other space
\* separators; LF, CR, LS, PS)
Whitespace ==
    {"\t", "U+000B", "\f", " ", "U+00A0", "U+FEFF",
     "U+1680", "U+2000", "U+2001", "U+2002", "U+2003", "U+2004", "U+2005",
     "U+2006", "U+2007", "U+2008", "U+2009", "U+200A", "U+202F", "U+205F",
     "U+3000",
     "\n", "\r", "U+2028", "U+2029"}

Rep(c, k) == IF k = 0 THEN <<>> ELSE <<[ch |-> c, n |-> k]>>

EmptyStr == <<>>

RECURSIVE StrLen(_)
StrLen(s) == IF s = <<>> THEN 0 ELSE Head(s).n + StrLen(Tail(s))

RECURSIVE TrimStart(_)
TrimStart(s) ==
    IF s = <<>> THEN <<>>
    ELSE IF Head(s).ch \in Whitespace THEN TrimStart(Tail(s))
    ELSE s

RECURSIVE TrimEnd(_)
TrimEnd(s) ==
    IF s = <<>> THEN <<>>
    ELSE IF s[Len(s)].ch \in Whitespace THEN TrimEnd(SubSeq(s, 1, Len(s) - 1))
    ELSE s

\* String.prototype.trim, as zod's .trim() applies it
Trim(s) == TrimEnd(TrimStart(s))

----------------------------------------------------------------------------
(* Validator *)

MaxTitleLen == 80
MaxContentLen == 5000

MsgTitleTooLong == "Title must be 80 characters or less"
MsgContentEmpty == "Content cannot be empty"
MsgContentTooLong == "Content must be 5000 characters or less"
MsgInvalid == "Invalid input"

\* issues of the title field: trim, then max(80)
TitleIssues(t) ==
    IF StrLen(Trim(t)) > MaxTitleLen THEN <<MsgTitleTooLong>> ELSE <<>>

\* issues of the content field: trim, then min(1), then max(5000)
ContentIssues(c) ==
    (IF StrLen(Trim(c)) < 1 THEN <<MsgContentEmpty>> ELSE <<>>)
    \o (IF StrLen(Trim(c)) > MaxContentLen THEN <<MsgContentTooLong>> ELSE <<>>)

\* faulty variant of NoteSchema.safeParse: content issues reported before title
\* issues (C1 does not hold of it)
NoteSchemaSafeParse_ContentFirst(t, c) ==
    LET issues == ContentIssues(c) \o TitleIssues(t)
    IN  IF issues = <<>>
        THEN [success |-> TRUE, issues |-> <<>>, title |-> Trim(t), content |-> Trim(c)]
        ELSE [success |-> FALSE, issues |-> issues, title |-> EmptyStr, content |-> EmptyStr]

\* NoteSchema.safeParse: the issues of the fields in key order, title first
NoteSchemaSafeParse(t, c) ==
    LET issues == TitleIssues(t) \o ContentIssues(c)
    IN  IF issues = <<>>
        THEN [success |-> TRUE, issues |-> <<>>, title |-> Trim(t), content |-> Trim(c)]
        ELSE [success |-> FALSE, issues |-> issues, title |-> EmptyStr, content |-> EmptyStr]

NoAlert == "(no alert)"

\* validateNoteOrAlert: [ok, alert, title, content]; ok = FALSE is the null return
validateNoteOrAlert(t, c) ==
    LET parsed == NoteSchemaSafeParse(t, c)
    IN  IF ~parsed.success
        THEN [ok |-> FALSE,
              alert |-> IF parsed.issues # <<>> THEN Head(parsed.issues) ELSE MsgInvalid,
              title |-> EmptyStr, content |-> EmptyStr]
        ELSE [ok |-> TRUE, alert |-> NoAlert,
              title |-> parsed.title, content |-> parsed.content]

----------------------------------------------------------------------------
(* Bounds and input sets *)

MaxNotes == 2       \* rows the backend ever creates
MaxTasks == 2       \* asynchronous operations pending at one time
MaxRefreshes == 1   \* refreshSession() calls waiting at one time
NumUsers == 2       \* accounts that sign in from this browser
MaxEvents == 7      \* user and environment events in one run
MaxLiveEvents == 5  \* the same, in the runs checked under fairness

UserNames == <<"u1", "u2", "u3">>
Users == {UserNames[k] : k \in 1..NumUsers}
NoUser == "none"
NoId == 0

\* drafts typed into the form of the running component
DraftTitles == {EmptyStr, Rep(" ", 1) \o Rep("A", 1) \o Rep(" ", 1)}
DraftContents == {EmptyStr, Rep("B", 1)}

MsgSignIn == "Please sign in."
MsgBackend == "backend error"
MsgSignedUp == "Signed up! If email confirmation is on, check your inbox."

Unset == [ok |-> FALSE, alert |-> "(unset)", title |-> EmptyStr, content |-> EmptyStr]

----------------------------------------------------------------------------
(* State *)

VARIABLES
    session,    \* backend auth client: the signed-in user, or NoUser
    db,         \* backend table "notes": set of rows
    owners,     \* owners[i]: the user that row id i was created for
    editingId,  \* useState: edit target, NoId = null
    userEmail,  \* useState: displayed identity, NoUser = null
    notes,      \* useState: the note list
    title,      \* useState: draft title
    content,    \* useState: draft content
    loading,    \* useState: busy flag
    pending,    \* suspended async calls, in the order they were invoked
    refreshes,  \* refreshSession() calls waiting at their getSession()
    alert,      \* the alert() shown by the last step, or NoAlert
    clean,      \* validator runs: the value validateNoteOrAlert returned
    lastLoad,   \* history: how the most recently invoked loadNotes() ended
    events,     \* history: user and environment events so far
    mounted,    \* whether the Home component is mounted
    handlers,   \* auth client: number of registered auth-state-change handlers
    error,      \* GlobalError: the error prop, NoError while the boundary is not mounted
    hasLoggedRef, \* GlobalError: useRef(false).current
    effectQueue,  \* GlobalError: runs of the logging effect that are due
    log,        \* console.error: the entries written by logError
    thrown      \* history: rendering errors delivered to the boundary so far

vars == <<session, db, owners, editingId, userEmail, notes, title, content,
          loading, pending, refreshes, alert, clean, lastLoad, events, mounted,
          handlers, error, hasLoggedRef, effectQueue, log, thrown>>

lifecycleVars == <<mounted, handlers>>
boundaryVars == <<error, hasLoggedRef, effectQueue, log, thrown>>
homeVars == <<session, db, owners, editingId, userEmail, notes, title, content,
              loading, pending, refreshes, alert, clean, lastLoad, events,
              lifecycleVars>>

backendVars == <<session, db, owners>>
formVars == <<editingId, title, content>>

----------------------------------------------------------------------------
(* Helpers over the table and the list *)

Ids(list) == {list[i].id : i \in 1..Len(list)}

RowIds == {r.id : r \in db}

\* .order("created_at", { ascending: false }) over a set of rows
RECURSIVE OrderDesc(_)
OrderDesc(rows) ==
    IF rows = {} THEN <<>>
    ELSE LET newest == CHOOSE r \in rows : \A q \in rows : q.created_at <= r.created_at
         IN  <<newest>> \o OrderDesc(rows \ {newest})

\* .select("id,title,content,created_at"): the columns of a row
Columns(r) == [id |-> r.id, title |-> r.title, content |-> r.content,
               created_at |-> r.created_at]

\* rows the backend's access rules let user u read or write
Visible(u) == {r \in db : r.owner = u}

SelectNotes(u) ==
    LET ordered == OrderDesc(Visible(u))
    IN  [i \in 1..Len(ordered) |-> Columns(ordered[i])]

Remove(seq, i) == SubSeq(seq, 1, i - 1) \o SubSeq(seq, i + 1, Len(seq))

(***************************************************************************)
(* A suspended call.  kind/phase say where it waits:                       *)
(*   "load", "add" in phase "gs": at await getSession();                   *)
(*   "select", "insert", "update", "delete" in phase "sent" (request on    *)
(*   its way) or "served" (the backend has acted and the response is on    *)
(*   its way back, with ok and, for a select, data);                       *)
(*   "signIn", "signUp", "signOut" in phase "sent": at the await of that   *)
(*   auth call.                                                            *)
(* The calls resume in any order: neither the auth client nor the backend  *)
(* answers in the order it was asked.  A refreshSession() waiting at its   *)
(* getSession() holds no state of its own and is counted in refreshes.     *)
(* auth is the session the request carries (for signIn: the account), id,  *)
(* title, content its arguments, and cEdit the editingId its closure       *)
(* captured (for "add" title/content are the captured draft).  del, made   *)
(* and byHandler are history: the id of the row that the deleteNote        *)
(* calling this loadNotes removed, the id of the row that the calling      *)
(* addNote created, and whether the handler or the mount effect called it. *)
(***************************************************************************)
BlankOp ==
    [kind |-> "none", phase |-> "gs", auth |-> NoUser, id |-> NoId,
     title |-> EmptyStr, content |-> EmptyStr, cEdit |-> NoId, ok |-> FALSE,
     data |-> <<>>, del |-> NoId, made |-> NoId, byHandler |-> FALSE]

Request(kind, auth, id, ttl, cnt, cEdit) ==
    [BlankOp EXCEPT !.kind = kind, !.phase = "sent", !.auth = auth, !.id = id,
                    !.title = ttl, !.content = cnt, !.cEdit = cEdit]

LoadKinds == {"load", "select"}
WriteKinds == {"insert", "update", "delete"}

\* the requests sent to the table "notes"
DataKinds == {"select"} \cup WriteKinds

\* asynchronous operations pending
Tasks == Len(pending)

\* the call at position i waits in that phase
Waits(i, kind, phase) ==
    /\ i \in 1..Len(pending)
    /\ pending[i].kind = kind
    /\ pending[i].phase = phase

\* rows a pending create may still add
PendingCreates ==
    Cardinality({i \in 1..Len(pending) : pending[i].kind \in {"add", "insert"}})

\* history: a loadNotes() is invoked / the one at position i ends with result
\* r, which counts when no loadNotes() was invoked after it
LoadInvoked == lastLoad' = "pending"
LoadEnds(i, r) ==
    lastLoad' = IF /\ lastLoad = "pending"
                   /\ \A j \in (i + 1)..Len(pending) : pending[j].kind \notin LoadKinds
                THEN r ELSE lastLoad

----------------------------------------------------------------------------
(* The component after mount: useState defaults, then the mount effect has  *)
(* called refreshSession(), subscribed the handler and called loadNotes().  *)
(* The browser may hold a session persisted by an earlier visit.            *)

\* supabase.auth.onAuthStateChange(handler) in the mount effect
Subscribe(h) == h + 1

\* faulty variant of the cleanup: the handler stays registered
\* (C15 does not hold of it)
Unsubscribe_Leak(h) ==
    h

\* sub.subscription.unsubscribe() in the mount effect's cleanup
Unsubscribe(h) == h - 1

\* whether an auth-state-change event finds a handler to run
Handled == handlers > 0

\* loadNotes() up to its first await, called with editingId = cEdit in scope
LoadNotesCall(cEdit) == [BlankOp EXCEPT !.kind = "load", !.cEdit = cEdit]

\* the loadNotes() of the handler or of the mount effect: both close over the
\* first render, where editingId is null
HandlerLoad == [LoadNotesCall(NoId) EXCEPT !.byHandler = TRUE]

\* the refreshSession() calls waiting once every registered handler has run
Refreshing(n) == n + handlers

\* the auth client emits an auth-state-change event: every registered handler
\* calls refreshSession() and loadNotes(), which suspend each at its own
\* getSession()
Notify(ops) == ops \o [k \in 1..handlers |-> HandlerLoad]

\* the error boundary is not rendered and nothing was logged
NoError == [id |-> 0, digest |-> "none"]
NoBoundary ==
    /\ error = NoError
    /\ hasLoggedRef = FALSE
    /\ effectQueue = 0
    /\ log = <<>>
    /\ thrown = 0

\* the component after mount, with n events of the run's budget spent
Started(n) ==
    /\ session \in Users \cup {NoUser}
    /\ db = {}
    /\ owners = <<>>
    /\ editingId = NoId
    /\ userEmail = NoUser
    /\ notes = <<>>
    /\ title = EmptyStr
    /\ content = EmptyStr
    /\ loading = TRUE
    /\ pending = <<HandlerLoad>>
    /\ refreshes = 1
    /\ alert = NoAlert
    /\ clean = Unset
    /\ lastLoad = "pending"
    /\ events = n
    /\ mounted = TRUE
    /\ handlers = Subscribe(0)
    /\ NoBoundary

Init == Started(0)

\* the same start for the runs checked under fairness, which hold at most
\* MaxLiveEvents user and environment events
InitLive == Started(MaxEvents - MaxLiveEvents)

----------------------------------------------------------------------------
(* User events; a disabled or unrendered control takes no click *)

\* a user or environment event: a run holds at most MaxEvents of them, and
\* every call they start runs to its end
Counted == events < MaxEvents /\ events' = events + 1

FormShown == userEmail # NoUser

\* onChange of the title input
SetTitle(t) ==
    /\ FormShown
    /\ mounted
    /\ Counted
    /\ UNCHANGED <<lifecycleVars, boundaryVars, refreshes>>
    /\ title # t
    /\ title' = t
    /\ alert' = NoAlert
    /\ UNCHANGED <<backendVars, editingId, userEmail, notes, content, loading,
                   pending, clean, lastLoad>>

\* onChange of the content textarea
SetContent(c) ==
    /\ FormShown
    /\ mounted
    /\ Counted
    /\ UNCHANGED <<lifecycleVars, boundaryVars, refreshes>>
    /\ content # c
    /\ content' = c
    /\ alert' = NoAlert
    /\ UNCHANGED <<backendVars, editingId, userEmail, notes, title, loading,
                   pending, clean, lastLoad>>

\* Edit button of the i-th displayed note
ClickEdit(i) ==
    /\ ~loading
    /\ mounted
    /\ Counted
    /\ UNCHANGED <<lifecycleVars, boundaryVars, refreshes>>
    /\ i \in 1..Len(notes)
    /\ editingId' = notes[i].id
    /\ title' = notes[i].title
    /\ content' = notes[i].content
    /\ alert' = NoAlert
    /\ UNCHANGED <<backendVars, userEmail, notes, loading, pending, clean,
                   lastLoad>>

\* Cancel button
ClickCancel ==
    /\ FormShown
    /\ mounted
    /\ Counted
    /\ UNCHANGED <<lifecycleVars, boundaryVars, refreshes>>
    /\ editingId # NoId
    /\ ~loading
    /\ editingId' = NoId
    /\ title' = EmptyStr
    /\ content' = EmptyStr
    /\ alert' = NoAlert
    /\ UNCHANGED <<backendVars, userEmail, notes, loading, pending, clean,
                   lastLoad>>

\* Refresh button: loadNotes of the current render
ClickRefresh ==
    /\ ~loading
    /\ mounted
    /\ Counted
    /\ UNCHANGED <<lifecycleVars, boundaryVars, refreshes>>
    /\ Tasks < MaxTasks
    /\ loading' = TRUE
    /\ pending' = Append(pending, LoadNotesCall(editingId))
    /\ alert' = NoAlert
    /\ LoadInvoked
    /\ UNCHANGED <<backendVars, formVars, userEmail, notes, clean>>

\* submit button in create mode: addNote() up to await getSession()
addNote ==
    /\ FormShown
    /\ mounted
    /\ Counted
    /\ UNCHANGED <<lifecycleVars, boundaryVars, refreshes>>
    /\ editingId = NoId
    /\ ~loading
    /\ Tasks < MaxTasks
    /\ Len(owners) + PendingCreates < MaxNotes
    /\ loading' = TRUE
    /\ pending' = Append(pending,
          [BlankOp EXCEPT !.kind = "add", !.cEdit = editingId,
                          !.title = title, !.content = content])
    /\ alert' = NoAlert
    /\ UNCHANGED <<backendVars, formVars, userEmail, notes, clean, lastLoad>>

\* whether updateNote sends its request: the draft validated
UpdateSends(v) == v.ok

\* submit button in edit mode: updateNote() up to await update(...)
updateNote ==
    /\ FormShown
    /\ mounted
    /\ Counted
    /\ UNCHANGED <<lifecycleVars, boundaryVars, refreshes>>
    /\ editingId # NoId
    /\ ~loading
    /\ Tasks < MaxTasks
    /\ LET v == validateNoteOrAlert(title, content)
       IN  /\ alert' = v.alert
           /\ IF UpdateSends(v)
              THEN /\ loading' = TRUE
                   /\ pending' = Append(pending,
                         Request("update", session, editingId, v.title, v.content, editingId))
              ELSE UNCHANGED <<loading, pending>>
    /\ UNCHANGED <<backendVars, formVars, userEmail, notes, clean, lastLoad>>

\* Delete button of the i-th displayed note: deleteNote(id) up to await delete()
deleteNote(i) ==
    /\ ~loading
    /\ mounted
    /\ Counted
    /\ UNCHANGED <<lifecycleVars, boundaryVars, refreshes>>
    /\ i \in 1..Len(notes)
    /\ Tasks < MaxTasks
    /\ loading' = TRUE
    /\ pending' = Append(pending,
          Request("delete", session, notes[i].id, EmptyStr, EmptyStr, editingId))
    /\ alert' = NoAlert
    /\ UNCHANGED <<backendVars, formVars, userEmail, notes, clean, lastLoad>>

\* Sign in button: signIn() up to await signInWithPassword(), as account u
signIn(u) ==
    /\ ~FormShown
    /\ mounted
    /\ Counted
    /\ UNCHANGED <<lifecycleVars, boundaryVars, refreshes>>
    /\ ~loading
    /\ Tasks < MaxTasks
    /\ loading' = TRUE
    /\ pending' = Append(pending, Request("signIn", u, NoId, EmptyStr, EmptyStr, NoId))
    /\ alert' = NoAlert
    /\ UNCHANGED <<backendVars, formVars, userEmail, notes, clean, lastLoad>>

\* Sign up button: signUp() up to await auth.signUp()
signUp ==
    /\ ~FormShown
    /\ mounted
    /\ Counted
    /\ UNCHANGED <<lifecycleVars, boundaryVars, refreshes>>
    /\ ~loading
    /\ Tasks < MaxTasks
    /\ loading' = TRUE
    /\ pending' = Append(pending, Request("signUp", NoUser, NoId, EmptyStr, EmptyStr, NoId))
    /\ alert' = NoAlert
    /\ UNCHANGED <<backendVars, formVars, userEmail, notes, clean, lastLoad>>

\* Sign out button: signOut() up to await auth.signOut(); the busy flag is not set
signOut ==
    /\ FormShown
    /\ mounted
    /\ Counted
    /\ UNCHANGED <<lifecycleVars, boundaryVars, refreshes>>
    /\ ~loading
    /\ Tasks < MaxTasks
    /\ pending' = Append(pending, Request("signOut", session, NoId, EmptyStr, EmptyStr, NoId))
    /\ alert' = NoAlert
    /\ UNCHANGED <<backendVars, formVars, userEmail, notes, loading, clean,
                   lastLoad>>

----------------------------------------------------------------------------
(* Backend *)

\* the backend emits an auth-state-change event on its own (a token refresh):
\* the handler runs refreshSession(); loadNotes()
AuthEvent ==
    /\ Tasks < MaxTasks
    /\ refreshes < MaxRefreshes
    /\ Counted
    /\ UNCHANGED <<lifecycleVars, boundaryVars>>
    /\ pending' = Notify(pending)
    /\ refreshes' = Refreshing(refreshes)
    /\ loading' = (Handled \/ loading)
    /\ alert' = NoAlert
    /\ IF Handled THEN LoadInvoked ELSE UNCHANGED lastLoad
    /\ UNCHANGED <<backendVars, formVars, userEmail, notes, clean>>

\* the row an insert creates: id and created_at are assigned by the backend
NewRow(req) ==
    [id |-> Len(owners) + 1, owner |-> req.auth, title |-> req.title,
     content |-> req.content, created_at |-> Len(owners) + 1]

\* faulty variant of the backend's write: an update stamps the row anew
\* (C16 does not hold of it)
Applied_UpdateRestamps(req) ==
    CASE req.kind = "insert" -> db \cup {NewRow(req)}
      [] req.kind = "update" ->
            {IF r.id = req.id /\ r.owner = req.auth
                THEN [r EXCEPT !.title = req.title, !.content = req.content,
                               !.created_at = Len(owners) + 1]
                ELSE r : r \in db}
      [] req.kind = "delete" -> {r \in db : ~(r.id = req.id /\ r.owner = req.auth)}
      [] OTHER -> db

\* the table after the backend has applied a write under its access rules
Applied(req) ==
    CASE req.kind = "insert" -> db \cup {NewRow(req)}
      [] req.kind = "update" ->
            {IF r.id = req.id /\ r.owner = req.auth
                THEN [r EXCEPT !.title = req.title, !.content = req.content]
                ELSE r : r \in db}
      [] req.kind = "delete" -> {r \in db : ~(r.id = req.id /\ r.owner = req.auth)}
      [] OTHER -> db

\* the backend applies write request req, or fails (network failure, service
\* error) and applies nothing; the response carries ok
Write(req, ok) ==
    /\ db' = IF ok THEN Applied(req) ELSE db
    /\ owners' = IF ok /\ req.kind = "insert" THEN Append(owners, req.auth) ELSE owners
    /\ UNCHANGED session

\* the response to request req: for a select the rows the backend holds now;
\* made and del record the row an insert created and the row a delete removed
Response(req, ok) ==
    [req EXCEPT !.phase = "served", !.ok = ok,
        !.data = IF ok /\ req.kind = "select" THEN SelectNotes(req.auth) ELSE <<>>,
        !.made = IF ok /\ req.kind = "insert" THEN NewRow(req).id ELSE req.made,
        !.del = IF ok /\ req.kind = "delete" /\ req.id \notin RowIds'
                THEN req.id ELSE req.del]

\* the backend acts on request i (it answers a select, applies a write) or
\* fails; the response is then on its way, and the call that awaits it resumes
\* in a later step
Serve(i, ok) ==
    /\ i \in 1..Len(pending)
    /\ UNCHANGED <<events, lifecycleVars, boundaryVars, refreshes>>
    /\ pending[i].kind \in DataKinds
    /\ pending[i].phase = "sent"
    /\ IF pending[i].kind \in WriteKinds
       THEN Write(pending[i], ok)
       ELSE UNCHANGED backendVars
    /\ pending' = [pending EXCEPT ![i] = Response(pending[i], ok)]
    /\ alert' = NoAlert
    /\ UNCHANGED <<formVars, userEmail, notes, loading, clean, lastLoad>>

\* another client of the same backend deletes row id
ExternalDelete(id) ==
    /\ id \in RowIds
    /\ Counted
    /\ UNCHANGED <<lifecycleVars, boundaryVars, refreshes>>
    /\ db' = {r \in db : r.id # id}
    /\ alert' = NoAlert
    /\ UNCHANGED <<session, owners, formVars, userEmail, notes, loading, pending,
                   clean, lastLoad>>

----------------------------------------------------------------------------
(* Continuations after await getSession() *)

\* refreshSession after getSession: the identity to display
RefreshedEmail(user) == user

\* whether loadNotes, after getSession, takes the no-session branch
LoadClears(user) == user = NoUser

\* loadNotes after getSession: no user clears the list, else the select is sent
LoadContinues(i) ==
    IF LoadClears(session)
    THEN /\ notes' = <<>>
         /\ loading' = FALSE
         /\ pending' = Remove(pending, i)
         /\ LoadEnds(i, "ok")
    ELSE /\ pending' = [pending EXCEPT ![i] =
               [pending[i] EXCEPT !.kind = "select", !.phase = "sent", !.auth = session]]
         /\ UNCHANGED <<notes, loading, lastLoad>>

\* a loadNotes() call resumes after its getSession(): that of a button, of
\* addNote/deleteNote/updateNote, of the handler or of the mount effect
LoadResolve(i) ==
    /\ Waits(i, "load", "gs")
    /\ UNCHANGED <<events, lifecycleVars, boundaryVars, refreshes>>
    /\ LoadContinues(i)
    /\ alert' = NoAlert
    /\ UNCHANGED <<backendVars, formVars, userEmail, clean>>

\* a refreshSession() call of the handler (or of the mount effect) resumes
\* after its getSession(): setUserEmail
RefreshResolve ==
    /\ refreshes > 0
    /\ UNCHANGED <<events, lifecycleVars, boundaryVars>>
    /\ refreshes' = refreshes - 1
    /\ userEmail' = RefreshedEmail(session)
    /\ alert' = NoAlert
    /\ UNCHANGED <<backendVars, formVars, notes, loading, pending, clean,
                   lastLoad>>

\* faulty variant of addNote's checks: the validator's refusal is ignored
\* (C10 does not hold of it)
AddOutcome_SkipValidation(user, v) ==
    IF user = NoUser THEN "auth" ELSE "insert"

\* what addNote does after getSession with the closure's draft:
\* "auth" (no user), "invalid" (validator refused) or "insert"
AddOutcome(user, v) ==
    IF user = NoUser THEN "auth"
    ELSE IF ~v.ok THEN "invalid"
    ELSE "insert"

\* addNote after getSession
AddResolve(i) ==
    /\ Waits(i, "add", "gs")
    /\ UNCHANGED <<events, lifecycleVars, boundaryVars, refreshes>>
    /\ LET v == validateNoteOrAlert(pending[i].title, pending[i].content)
           outcome == AddOutcome(session, v)
       IN  CASE outcome = "auth" ->
                  /\ alert' = MsgSignIn
                  /\ loading' = FALSE
                  /\ pending' = Remove(pending, i)
             [] outcome = "invalid" ->
                  /\ alert' = v.alert
                  /\ loading' = FALSE
                  /\ pending' = Remove(pending, i)
             [] OTHER ->
                  /\ alert' = NoAlert
                  /\ pending' = [pending EXCEPT ![i] =
                        [pending[i] EXCEPT !.kind = "insert", !.phase = "sent",
                            !.auth = session, !.title = v.title, !.content = v.content]]
                  /\ UNCHANGED loading
    /\ UNCHANGED <<backendVars, formVars, userEmail, notes, clean, lastLoad>>

----------------------------------------------------------------------------
(* Continuations after a backend response arrives *)

\* loadNotes: the edit target captured by the closure is missing from the list
StaleEdit(cEdit, nextNotes) == cEdit # NoId /\ cEdit \notin Ids(nextNotes)

\* loadNotes after the select: install the list, drop a stale edit, clear busy
SelectDone(i) ==
    /\ Waits(i, "select", "served")
    /\ UNCHANGED <<events, lifecycleVars, boundaryVars, refreshes>>
    /\ LET req == pending[i]
       IN  /\ IF req.ok
              THEN /\ notes' = req.data
                   /\ IF StaleEdit(req.cEdit, req.data)
                      THEN /\ editingId' = NoId
                           /\ title' = EmptyStr
                           /\ content' = EmptyStr
                      ELSE UNCHANGED formVars
              ELSE UNCHANGED <<notes, formVars>>
           /\ LoadEnds(i, IF req.ok THEN "ok" ELSE "failed")
    /\ loading' = FALSE
    /\ pending' = Remove(pending, i)
    /\ alert' = NoAlert
    /\ UNCHANGED <<backendVars, userEmail, clean>>

\* addNote resumes with the insert's response: on success reset the draft and
\* call loadNotes()
InsertDone(i) ==
    /\ Waits(i, "insert", "served")
    /\ UNCHANGED <<events, lifecycleVars, boundaryVars, refreshes>>
    /\ LET req == pending[i]
       IN  IF req.ok
           THEN /\ title' = EmptyStr
                /\ content' = EmptyStr
                /\ loading' = TRUE
                /\ pending' = Append(Remove(pending, i),
                      [LoadNotesCall(req.cEdit) EXCEPT !.made = req.made])
                /\ alert' = NoAlert
                /\ LoadInvoked
           ELSE /\ loading' = FALSE
                /\ pending' = Remove(pending, i)
                /\ alert' = MsgBackend
                /\ UNCHANGED <<title, content, lastLoad>>
    /\ UNCHANGED <<backendVars, editingId, userEmail, notes, clean>>

\* deleteNote resumes with the delete's response: on success call loadNotes()
DeleteDone(i) ==
    /\ Waits(i, "delete", "served")
    /\ UNCHANGED <<events, lifecycleVars, boundaryVars, refreshes>>
    /\ LET req == pending[i]
       IN  IF req.ok
           THEN /\ loading' = TRUE
                /\ pending' = Append(Remove(pending, i),
                      [LoadNotesCall(req.cEdit) EXCEPT !.del = req.del])
                /\ alert' = NoAlert
                /\ LoadInvoked
           ELSE /\ loading' = FALSE
                /\ pending' = Remove(pending, i)
                /\ alert' = MsgBackend
                /\ UNCHANGED lastLoad
    /\ UNCHANGED <<backendVars, formVars, userEmail, notes, clean>>

\* faulty variant of updateNote's continuation: edit mode is left in the
\* finally block, whatever the response (C11 does not hold of it)
UpdateDone_ResetOnFailure(i) ==
    /\ Waits(i, "update", "served")
    /\ UNCHANGED <<events, lifecycleVars, boundaryVars, refreshes>>
    /\ editingId' = NoId
    /\ title' = EmptyStr
    /\ content' = EmptyStr
    /\ LET req == pending[i]
       IN  IF req.ok
           THEN /\ loading' = TRUE
                /\ pending' = Append(Remove(pending, i), LoadNotesCall(req.cEdit))
                /\ alert' = NoAlert
                /\ LoadInvoked
           ELSE /\ loading' = FALSE
                /\ pending' = Remove(pending, i)
                /\ alert' = MsgBackend
                /\ UNCHANGED lastLoad
    /\ UNCHANGED <<backendVars, userEmail, notes, clean>>

\* updateNote resumes with the update's response: on success leave edit mode
\* and call loadNotes(); the finally block's setLoading(false) follows
\* loadNotes' own
UpdateDone(i) ==
    /\ Waits(i, "update", "served")
    /\ UNCHANGED <<events, lifecycleVars, boundaryVars, refreshes>>
    /\ LET req == pending[i]
       IN  IF req.ok
           THEN /\ editingId' = NoId
                /\ title' = EmptyStr
                /\ content' = EmptyStr
                /\ loading' = TRUE
                /\ pending' = Append(Remove(pending, i), LoadNotesCall(req.cEdit))
                /\ alert' = NoAlert
                /\ LoadInvoked
           ELSE /\ loading' = FALSE
                /\ pending' = Remove(pending, i)
                /\ alert' = MsgBackend
                /\ UNCHANGED <<formVars, lastLoad>>
    /\ UNCHANGED <<backendVars, userEmail, notes, clean>>

\* signIn after signInWithPassword: on success the client holds the session and
\* emits the event; the handler and the continuation's setLoading(false) run in
\* either order
SignInDone(i, ok, handlerFirst) ==
    /\ Waits(i, "signIn", "sent")
    /\ UNCHANGED <<events, lifecycleVars, boundaryVars>>
    /\ ok => refreshes < MaxRefreshes
    /\ IF ok
       THEN /\ session' = pending[i].auth
            /\ pending' = Notify(Remove(pending, i))
            /\ refreshes' = Refreshing(refreshes)
            /\ loading' = (Handled /\ ~handlerFirst)
            /\ alert' = NoAlert
            /\ IF Handled THEN LoadInvoked ELSE UNCHANGED lastLoad
       ELSE /\ loading' = FALSE
            /\ pending' = Remove(pending, i)
            /\ alert' = MsgBackend
            /\ UNCHANGED <<session, lastLoad, refreshes>>
    /\ UNCHANGED <<db, owners, formVars, userEmail, notes, clean>>

\* faulty variant of signUp's continuation: the busy flag is cleared only on
\* success (C18 does not hold of it)
SignUpDone_BusyOnError(i, ok) ==
    /\ Waits(i, "signUp", "sent")
    /\ UNCHANGED <<events, lifecycleVars, boundaryVars, refreshes>>
    /\ pending' = Remove(pending, i)
    /\ loading' = IF ok THEN FALSE ELSE loading
    /\ alert' = IF ok THEN MsgSignedUp ELSE MsgBackend
    /\ UNCHANGED <<backendVars, formVars, userEmail, notes, clean, lastLoad>>

\* signUp after auth.signUp (email confirmation on: no session is created)
SignUpDone(i, ok) ==
    /\ Waits(i, "signUp", "sent")
    /\ UNCHANGED <<events, lifecycleVars, boundaryVars, refreshes>>
    /\ pending' = Remove(pending, i)
    /\ loading' = FALSE
    /\ alert' = IF ok THEN MsgSignedUp ELSE MsgBackend
    /\ UNCHANGED <<backendVars, formVars, userEmail, notes, clean, lastLoad>>

\* signOut after auth.signOut: on success the session is gone and the event is
\* emitted (the handler runs); the result is not looked at
SignOutDone(i, ok) ==
    /\ Waits(i, "signOut", "sent")
    /\ UNCHANGED <<events, lifecycleVars, boundaryVars>>
    /\ ok => refreshes < MaxRefreshes
    /\ IF ok
       THEN /\ session' = NoUser
            /\ pending' = Notify(Remove(pending, i))
            /\ refreshes' = Refreshing(refreshes)
            /\ loading' = (Handled \/ loading)
            /\ IF Handled THEN LoadInvoked ELSE UNCHANGED lastLoad
       ELSE /\ pending' = Remove(pending, i)
            /\ UNCHANGED <<session, loading, lastLoad, refreshes>>
    /\ alert' = NoAlert
    /\ UNCHANGED <<db, owners, formVars, userEmail, notes, clean>>

----------------------------------------------------------------------------

Next ==
    \/ \E t \in DraftTitles : SetTitle(t)
    \/ \E c \in DraftContents : SetContent(c)
    \/ \E i \in 1..MaxNotes : ClickEdit(i)
    \/ ClickCancel
    \/ ClickRefresh
    \/ addNote
    \/ updateNote
    \/ \E i \in 1..MaxNotes : deleteNote(i)
    \/ \E u \in Users : signIn(u)
    \/ signUp
    \/ signOut
    \/ AuthEvent
    \/ \E i \in 1..MaxTasks, ok \in BOOLEAN : Serve(i, ok)
    \/ \E id \in 1..MaxNotes : ExternalDelete(id)
    \/ RefreshResolve
    \/ \E i \in 1..MaxTasks : LoadResolve(i)
    \/ \E i \in 1..MaxTasks : AddResolve(i)
    \/ \E i \in 1..MaxTasks : SelectDone(i)
    \/ \E i \in 1..MaxTasks : InsertDone(i)
    \/ \E i \in 1..MaxTasks : DeleteDone(i)
    \/ \E i \in 1..MaxTasks : UpdateDone(i)
    \/ \E i \in 1..MaxTasks, ok \in BOOLEAN, hf \in BOOLEAN : SignInDone(i, ok, hf)
    \/ \E i \in 1..MaxTasks, ok \in BOOLEAN : SignUpDone(i, ok)
    \/ \E i \in 1..MaxTasks, ok \in BOOLEAN : SignOutDone(i, ok)

Spec == Init /\ [][Next]_vars

----------------------------------------------------------------------------
(* The validator on its own: drafts around the limits are put in the form   *)
(* of a freshly mounted component and validateNoteOrAlert is applied.       *)

Sp(k) == Rep(" ", k)

ValidatorTitles ==
    { EmptyStr, Sp(3), Rep("A", 1), Sp(1) \o Rep("A", 1) \o Sp(1),
      Rep("a", 79), Rep("a", 80), Rep("a", 81),
      Sp(2) \o Rep("a", 80) \o Rep("\n", 1),
      Rep("\t", 1) \o Rep("a", 81) \o Sp(1),
      Rep("a", 40) \o Sp(1) \o Rep("a", 40),
      Rep("\r", 1) \o Rep("a", 80) \o Rep("\r", 1),
      Rep("U+00A0", 1) \o Rep("a", 80),
      Rep("U+200B", 1) \o Rep("a", 80) }

ValidatorContents ==
    { EmptyStr, Sp(1) \o Rep("\n", 2) \o Rep("\t", 1), Rep("B", 1),
      Sp(1) \o Rep("B", 1) \o Sp(1), Rep("o", 1) \o Rep("k", 1),
      Rep("x", 4999), Rep("x", 5000), Rep("x", 5001),
      Sp(4) \o Rep("x", 5000) \o Rep("\n", 1),
      Rep("x", 2500) \o Rep("\n", 1) \o Rep("x", 2500),
      Rep("\r", 1), Rep("U+00A0", 1), Rep("\f", 1) \o Rep("U+000B", 1),
      Rep("U+3000", 1) \o Rep("x", 1) \o Rep("U+FEFF", 1),
      Rep("U+200B", 1) }

InitValidator ==
    /\ session = NoUser
    /\ db = {}
    /\ owners = <<>>
    /\ editingId = NoId
    /\ userEmail = NoUser
    /\ notes = <<>>
    /\ title \in ValidatorTitles
    /\ content \in ValidatorContents
    /\ loading = FALSE
    /\ pending = <<>>
    /\ refreshes = 0
    /\ alert = NoAlert
    /\ clean = Unset
    /\ lastLoad = "ok"
    /\ events = 0
    /\ mounted = TRUE
    /\ handlers = Subscribe(0)
    /\ NoBoundary

\* another draft is put in the form
ValidatorInput(t, c) ==
    /\ <<t, c>> # <<title, content>>
    /\ title' = t
    /\ content' = c
    /\ alert' = NoAlert
    /\ clean' = Unset
    /\ UNCHANGED <<backendVars, editingId, userEmail, notes, loading, pending, lastLoad,
                   events, lifecycleVars, boundaryVars, refreshes>>

\* const clean = validateNoteOrAlert(title, content)
ValidatorRun ==
    /\ clean = Unset
    /\ clean' = validateNoteOrAlert(title, content)
    /\ alert' = clean'.alert
    /\ UNCHANGED <<backendVars, formVars, userEmail, notes, loading, pending, lastLoad,
                   events, lifecycleVars, boundaryVars, refreshes>>

NextValidator ==
    \/ \E t \in ValidatorTitles, c \in ValidatorContents : ValidatorInput(t, c)
    \/ ValidatorRun

SpecValidator == InitValidator /\ [][NextValidator]_vars

----------------------------------------------------------------------------
(* C1 *)

\* r is s without its leading and trailing whitespace
IsTrimOf(r, s) ==
    /\ \E a \in 0..Len(s) :
          /\ a + Len(r) <= Len(s)
          /\ SubSeq(s, a + 1, a + Len(r)) = r
          /\ \A k \in (1..a) \cup ((a + Len(r) + 1)..Len(s)) : s[k].ch \in Whitespace
    /\ r # <<>> => (r[1].ch \notin Whitespace /\ r[Len(r)].ch \notin Whitespace)

\* the message of the first failing rule, in the order title-too-long,
\* content-empty, content-too-long; NoAlert when no rule fails
FirstFailingRule(tt, tc) ==
    IF StrLen(tt) > 80 THEN "Title must be 80 characters or less"
    ELSE IF StrLen(tc) < 1 THEN "Content cannot be empty"
    ELSE IF StrLen(tc) > 5000 THEN "Content must be 5000 characters or less"
    ELSE NoAlert

\* C1: for every (title, content), the validator succeeds, returning both
\* trimmed, exactly when the trimmed title has at most 80 characters and the
\* trimmed content between 1 and 5000; otherwise it fails with the one message
\* of the first failing rule (title-too-long, content-empty, content-too-long).
C1_ValidatorContract ==
    clean # Unset =>
        \E tt \in {Trim(title)}, tc \in {Trim(content)} :
            /\ IsTrimOf(tt, title)
            /\ IsTrimOf(tc, content)
            /\ clean.ok <=> (StrLen(tt) <= 80 /\ StrLen(tc) >= 1 /\ StrLen(tc) <= 5000)
            /\ clean.ok => (clean.title = tt /\ clean.content = tc)
            /\ alert = FirstFailingRule(tt, tc)
            /\ clean.alert = alert

\* C1 witness: an over-long title together with an empty content was refused
\* with the title message
C1_Witness ==
    /\ clean # Unset
    /\ StrLen(Trim(title)) > 80
    /\ StrLen(Trim(content)) = 0
    /\ ~clean.ok
    /\ alert = MsgTitleTooLong

----------------------------------------------------------------------------
(* Vocabulary of the claims about the running component *)

\* no call is suspended: no request and no getSession() is outstanding
Idle == pending = <<>> /\ refreshes = 0

NumKind(ops, kinds) == Cardinality({i \in 1..Len(ops) : ops[i].kind \in kinds})

\* this step resumed addNote after getSession (it sent the insert or gave up)
AddResumed == NumKind(pending', {"add"}) < NumKind(pending, {"add"})

\* the same, for the addNote call at position i
AddResumedAt(i) ==
    /\ Waits(i, "add", "gs")
    /\ \/ pending' = Remove(pending, i)
       \/ /\ Len(pending') = Len(pending)
          /\ pending'[i].kind = "insert"
          /\ \A j \in 1..Len(pending) : j # i => pending'[j] = pending[j]

\* this step sent a write request to the backend
WriteSent(kinds) ==
    NumKind(pending', kinds) > NumKind(pending, kinds)
    \/ (AddResumed /\ "insert" \in kinds
          /\ NumKind(pending', {"insert"}) = NumKind(pending, {"insert"}) + 1)

\* this step received the response of select request i (loadNotes finished)
SelectReceived(i) ==
    /\ Waits(i, "select", "served")
    /\ pending' = Remove(pending, i)

\* this step finished the loadNotes() call at position i, either way: at the
\* no-session branch or when the select's response arrived
LoadFinished(i) ==
    \/ SelectReceived(i)
    \/ /\ Waits(i, "load", "gs")
       /\ pending' = Remove(pending, i)

----------------------------------------------------------------------------
(* C2 *)

\* C2: whenever no request is outstanding, the list holds no note of a user
\* other than the authenticated one: it is empty when no session is present,
\* and every note in it is owned by the session's user otherwise.
C2_OnlySessionUsersNotes ==
    Idle =>
        /\ session = NoUser => notes = <<>>
        /\ session # NoUser => \A k \in 1..Len(notes) : owners[notes[k].id] = session

----------------------------------------------------------------------------
(* C3 *)

\* C3: a submission made while no session is present sends no insert and no
\* update request, and fails with AuthRequired ("Please sign in.").
C3_NoWriteWithoutSession ==
    [][session = NoUser =>
          /\ ~WriteSent({"insert", "update"})
          /\ AddResumed => alert' = MsgSignIn]_vars

----------------------------------------------------------------------------
(* C4 *)

\* C4: the busy flag serializes the mutating operations: in no reachable state
\* are two insert, update or delete requests of this client outstanding at the
\* same time.
C4_OneWriteOutstanding == NumKind(pending, WriteKinds) <= 1

----------------------------------------------------------------------------
(* C5 *)

\* C5: when the reload that the auth-state-change handler starts after a
\* sign-out completes with no session present, the note list is empty and the
\* edit target is none.
C5_SignOutClearsListAndEdit ==
    [][\A i \in 1..Len(pending) :
          (/\ Waits(i, "load", "gs")
           /\ pending[i].byHandler
           /\ session = NoUser
           /\ pending' = Remove(pending, i))
              => (notes' = <<>> /\ editingId' = NoId)]_vars

----------------------------------------------------------------------------
(* C7 *)

\* C7: after every load that installs a freshly fetched list, whichever path
\* called it, the edit target is none or the id of a note in that list.
C7_EditTargetInInstalledList ==
    [][\A i \in 1..Len(pending) :
          (SelectReceived(i) /\ pending[i].ok) =>
              (editingId' = NoId \/ editingId' \in Ids(notes'))]_vars

----------------------------------------------------------------------------
(* C8 *)

\* C8: whenever nothing is outstanding and the most recently invoked load
\* succeeded, the list shows every row the user has in the table as it is
\* stored (the effect of every create and update completed before that load).
C8_LastLoadWins ==
    (Idle /\ lastLoad = "ok") =>
        \A r \in Visible(session) : \E k \in 1..Len(notes) : notes[k] = Columns(r)

----------------------------------------------------------------------------
(* C6 *)

\* the loadNotes() at position i was called by a deleteNote(id) that removed
\* the note that was the edit target when Delete was clicked
AfterDeleteOfEditTarget(i) ==
    /\ i \in 1..Len(pending)
    /\ pending[i].del # NoId
    /\ pending[i].del = pending[i].cEdit

EditCleared == editingId' = NoId /\ title' = EmptyStr /\ content' = EmptyStr

\* C6: when the load that follows a successful delete of the edit target
\* completes, the edit target is none, the draft is empty and the deleted note
\* is not in the list.
C6_DeleteOfEditTargetClears ==
    [][\A i \in 1..Len(pending) :
          (AfterDeleteOfEditTarget(i) /\ LoadFinished(i)) =>
              (EditCleared /\ pending[i].del \notin Ids(notes'))]_vars

----------------------------------------------------------------------------
(* C9 *)

Row(id) == CHOOSE r \in db : r.id = id

\* the row created by the addNote that called the loadNotes() at position i is
\* still stored, is the newest row, and belongs to the user the load fetches for
CreatedRowIsNewest(i) ==
    /\ i \in 1..Len(pending)
    /\ pending[i].made # NoId
    /\ pending[i].made \in RowIds
    /\ pending[i].made = Len(owners)
    /\ pending[i].kind = "select" => Row(pending[i].made).owner = pending[i].auth

\* C9: a successful create followed by the reload it triggers yields a list
\* with the created note first (the row is still stored and the newest).
C9_CreateThenReload ==
    [][\A i \in 1..Len(pending) :
          (CreatedRowIsNewest(i) /\ LoadFinished(i)) =>
              (notes' # <<>> /\ notes'[1].id = pending[i].made)]_vars

----------------------------------------------------------------------------
(* C10 *)

ValidatorMessages == {MsgTitleTooLong, MsgContentEmpty, MsgContentTooLong, MsgInvalid}

\* this step resumed an addNote whose captured draft fails validation
InvalidCreate(i) ==
    /\ AddResumedAt(i)
    /\ ~validateNoteOrAlert(pending[i].title, pending[i].content).ok

\* the submit button is in edit mode and the draft fails validation
InvalidEditDraft ==
    /\ FormShown
    /\ editingId # NoId
    /\ ~loading
    /\ ~validateNoteOrAlert(title, content).ok

\* the submission is aborted: nothing sent, nothing reloaded, list, draft and
\* edit target as before, busy flag false
Aborted ==
    /\ ~WriteSent(WriteKinds)
    /\ NumKind(pending', LoadKinds) = NumKind(pending, LoadKinds)
    /\ notes' = notes
    /\ UNCHANGED formVars
    /\ loading' = FALSE

\* an invalid draft submitted in edit mode: no update is sent, and the step
\* that shows a validator message shows the draft's and changes nothing else
InvalidEditAborts ==
    InvalidEditDraft =>
        /\ ~WriteSent({"update"})
        /\ (alert' \in ValidatorMessages /\ ~AddResumed) =>
              /\ alert' = validateNoteOrAlert(title, content).alert
              /\ Aborted
              /\ UNCHANGED <<backendVars, userEmail, pending>>

\* C10 as claimed: a submission whose draft fails validation shows the
\* validator's message and is aborted, in create mode and in edit mode.
C10_InvalidDraftAborts ==
    [][/\ \A i \in 1..Len(pending) :
             InvalidCreate(i) =>
                /\ alert' = validateNoteOrAlert(pending[i].title,
                                                pending[i].content).alert
                /\ Aborted
       /\ InvalidEditAborts]_vars

\* C10 as amended: in create mode the validator's message is shown when a
\* session is present; without one the submission fails with AuthRequired
\* first. Either way, and in edit mode, the submission is aborted.
C10_InvalidDraftAbortsWithSession ==
    [][/\ \A i \in 1..Len(pending) :
             InvalidCreate(i) =>
                /\ alert' = IF session = NoUser THEN MsgSignIn
                            ELSE validateNoteOrAlert(pending[i].title,
                                                     pending[i].content).alert
                /\ Aborted
       /\ InvalidEditAborts]_vars

\* C10 witness: a create submission with an empty content, made with a session
\* present, was just refused with the validator's message
C10_Witness ==
    /\ alert = MsgContentEmpty
    /\ session # NoUser
    /\ editingId = NoId
    /\ ~loading
    /\ StrLen(Trim(content)) = 0

----------------------------------------------------------------------------
(* C11 *)

\* this step delivered the response of the write request at position i: the
\* call is gone from the pending ones (a call it made may have joined them)
WriteAnswered(i) ==
    /\ i \in 1..Len(pending)
    /\ pending[i].kind \in WriteKinds
    /\ pending[i].phase = "served"
    /\ \/ pending' = Remove(pending, i)
       \/ /\ Len(pending') = Len(pending)
          /\ pending' # pending
          /\ SubSeq(pending', 1, Len(pending) - 1) = Remove(pending, i)
          /\ pending'[Len(pending')].kind = "load"

\* the step showed the backend's error message for that request
FailureReported(i) == WriteAnswered(i) /\ alert' = MsgBackend

\* in this step the backend acted on the write request at position i
WriteServed(i) ==
    /\ i \in 1..Len(pending)
    /\ pending[i].kind \in WriteKinds
    /\ pending[i].phase = "sent"
    /\ Len(pending') = Len(pending)
    /\ pending'[i].kind = pending[i].kind
    /\ pending'[i].phase = "served"
    /\ \A j \in 1..Len(pending) : j # i => pending'[j] = pending[j]

\* the same, and the backend refused the request
WriteRefused(i) == WriteServed(i) /\ ~pending'[i].ok

\* C11: when the backend reports a failure for an insert, update or delete
\* request, the table is as before, no retry and no reload is started, and the
\* note list, the draft and the edit target are left as they are; the busy
\* flag is cleared so the user can resubmit.
C11_FailedWriteChangesNothing ==
    [][\A i \in 1..Len(pending) :
          /\ WriteRefused(i) => (db' = db /\ owners' = owners)
          /\ FailureReported(i) =>
                /\ ~pending[i].ok
                /\ db' = db /\ owners' = owners
                /\ pending' = Remove(pending, i)
                /\ notes' = notes
                /\ UNCHANGED formVars
                /\ loading' = FALSE]_vars

\* C11 witness: an update of note 1 was just refused by the backend; the form
\* still edits note 1 with the draft that was submitted
C11_Witness ==
    /\ alert = MsgBackend
    /\ editingId = 1
    /\ content # EmptyStr
    /\ 1 \in Ids(notes)
    /\ ~loading
    /\ Idle

----------------------------------------------------------------------------
(* C12 *)

\* this step delivered a response to the call at position i, of the given
\* kinds, and the call ended there: it started nothing after it, which is what
\* signIn, signOut, addNote, deleteNote and updateNote do on an error. A
\* successful signIn or signOut is told apart by the handler it makes run, so
\* only steps taken while the handler is registered count for these two.
EndedAt(i, kinds) ==
    /\ i \in 1..Len(pending)
    /\ pending[i].kind \in kinds
    /\ pending[i].phase = IF pending[i].kind \in DataKinds THEN "served" ELSE "sent"
    /\ pending[i].kind \in {"signIn", "signOut"} => Handled
    /\ pending' = Remove(pending, i)

\* C12: every failure the backend reports is shown to the user with the
\* backend's message: a failed list fetch, and a signIn, signOut, insert,
\* update or delete that ended on its response without its success effect.
C12_EveryFailureSurfaced ==
    [][\A i \in 1..Len(pending) :
          /\ (SelectReceived(i) /\ ~pending[i].ok) => alert' = MsgBackend
          /\ EndedAt(i, WriteKinds \cup {"signIn", "signOut"}) => alert' = MsgBackend]_vars

----------------------------------------------------------------------------
(* C13 *)

\* this step delivered the success of the insert or update request at
\* position i: the call went on to loadNotes()
SubmitSucceeded(i) ==
    /\ WriteAnswered(i)
    /\ pending[i].kind \in {"insert", "update"}
    /\ Len(pending') = Len(pending)

\* this step is a click on Cancel: a user event that leaves edit mode
Cancelled == events' = events + 1 /\ editingId # NoId /\ editingId' = NoId

FormReset == editingId' = NoId /\ title' = EmptyStr /\ content' = EmptyStr

\* C13: immediately after Cancel, and after every create or update whose
\* backend request succeeded, the edit target is none and the draft title and
\* content are empty.
C13_FormResetAfterSubmitOrCancel ==
    [][/\ Cancelled => FormReset
       /\ \A i \in 1..Len(pending) : SubmitSucceeded(i) => FormReset]_vars

----------------------------------------------------------------------------
(* C14 *)

\* the load at position i completes in this step, for the session that is
\* still current, with the very list that is already installed: an earlier
\* load of this session fetched it and the user's notes were not written since
LoadRepeated(i) ==
    \/ /\ SelectReceived(i)
       /\ pending[i].ok
       /\ pending[i].auth = session
       /\ pending[i].data = notes
       /\ notes = SelectNotes(session)
    \/ /\ LoadFinished(i)
       /\ ~SelectReceived(i)
       /\ notes = <<>>

\* C14: a load that follows another with the same session and no mutation in
\* between leaves the same list, in the same order, and changes neither the
\* draft nor the edit target.
C14_LoadIdempotent ==
    [][\A i \in 1..Len(pending) :
          LoadRepeated(i) => (notes' = notes /\ UNCHANGED formVars)]_vars

----------------------------------------------------------------------------
(* Shutdown: the Home component unmounts *)

\* the mount effect's cleanup runs. Calls that are suspended still resume;
\* what they pass to the state setters is kept, but nothing renders it and no
\* control is left to click.
Unmount ==
    /\ mounted
    /\ Counted
    /\ mounted' = FALSE
    /\ handlers' = Unsubscribe(handlers)
    /\ alert' = NoAlert
    /\ UNCHANGED <<backendVars, formVars, userEmail, notes, loading, pending,
                   refreshes, clean, lastLoad, boundaryVars>>

NextLifecycle ==
    \/ Next
    \/ Unmount

SpecLifecycle == Init /\ [][NextLifecycle]_vars

----------------------------------------------------------------------------
(* C15 *)

\* this step called the auth-state-change handler: its refreshSession() and
\* its loadNotes() wait at their getSession()
HandlerRuns ==
    /\ refreshes' = refreshes + 1
    /\ pending' # <<>>
    /\ pending'[Len(pending')] = HandlerLoad

\* this step changed the backend's session: the auth client emits an event
SessionChanged == session' # session

\* C15: exactly one auth-state-change handler is registered while the
\* component is mounted and none after it unmounted; every change of the
\* session while it is mounted calls the handler, and once no request is
\* outstanding the displayed identity is the session's user (none after
\* sign-out); after the unmount no event calls a handler.
C15_OneHandlerUntilShutdown ==
    /\ [](handlers = IF mounted THEN 1 ELSE 0)
    /\ []((mounted /\ Idle) => userEmail = session)
    /\ [][/\ (mounted /\ SessionChanged) => HandlerRuns
          /\ ~mounted => ~HandlerRuns]_vars

\* both users were signed in while the component was mounted, and a sign-out
\* completed after the unmount: the displayed identity was not re-derived
C15_Witness ==
    /\ ~mounted
    /\ Idle
    /\ userEmail = "u2"
    /\ session = NoUser
    /\ \E r \in db : r.owner = "u1"

----------------------------------------------------------------------------
(* C16 *)

\* the backend acts in this step on the request at position i, of that kind
WriteOfKind(i, kind) == WriteServed(i) /\ pending[i].kind = kind

\* every row that is still there has the id, owner and timestamp it had
IdentityKept ==
    \A r \in db, q \in db' :
        q.id = r.id => (q.owner = r.owner /\ q.created_at = r.created_at)

\* an update leaves every row in place and touches at most the row it names
UpdateWritesTarget(req) ==
    /\ {r.id : r \in db'} = RowIds
    /\ \A r \in db : r.id # req.id => r \in db'

\* a create adds at most one row, owned by the requester, under an id and a
\* timestamp that no row ever had
CreateAddsFresh(req) ==
    /\ db \subseteq db'
    /\ Cardinality(db' \ db) <= 1
    /\ \A q \in db' \ db :
          /\ q.owner = req.auth
          /\ q.title = req.title /\ q.content = req.content
          /\ q.id > Len(owners)
          /\ \A r \in db : q.created_at > r.created_at

\* a delete removes at most the row it names
DeleteRemovesTarget(req) ==
    /\ db' \subseteq db
    /\ \A r \in db \ db' : r.id = req.id

\* C16: a note's id, owner and creation timestamp never change after its
\* creation: update writes only title and content of the row it names, create
\* adds one row whose id and timestamp the backend assigns, delete removes
\* only the row it names.
C16_NoteIdentityImmutable ==
    [][/\ IdentityKept
       /\ \A i \in 1..Len(pending) :
             /\ WriteOfKind(i, "update") => UpdateWritesTarget(pending[i])
             /\ WriteOfKind(i, "insert") => CreateAddsFresh(pending[i])
             /\ WriteOfKind(i, "delete") => DeleteRemovesTarget(pending[i])]_vars

\* an update has been applied and its reload is still on its way: the row in
\* the table differs from the same note in the list shown
C16_Witness ==
    /\ NumKind(pending, LoadKinds) > 0
    /\ \E r \in db : \E k \in 1..Len(notes) :
          /\ notes[k].id = r.id
          /\ notes[k].created_at = r.created_at
          /\ notes[k].title # r.title

----------------------------------------------------------------------------
(* C17 *)

\* C17: whenever a list fetch, insert, update or delete request of this
\* client has not yet received its response, the busy flag is true.
C17_BusyCoversDataRequests ==
    NumKind(pending, DataKinds) > 0 => loading

----------------------------------------------------------------------------
(* C18 *)

\* no request is outstanding and the busy flag is off
Settled == Idle /\ ~loading

\* the backend answers a request, or a suspended call resumes
Responds ==
    \/ \E i \in 1..MaxTasks, ok \in BOOLEAN : Serve(i, ok)
    \/ RefreshResolve
    \/ \E i \in 1..MaxTasks : LoadResolve(i)
    \/ \E i \in 1..MaxTasks : AddResolve(i)
    \/ \E i \in 1..MaxTasks : SelectDone(i)
    \/ \E i \in 1..MaxTasks : InsertDone(i)
    \/ \E i \in 1..MaxTasks : DeleteDone(i)
    \/ \E i \in 1..MaxTasks : UpdateDone(i)
    \/ \E i \in 1..MaxTasks, ok \in BOOLEAN, hf \in BOOLEAN : SignInDone(i, ok, hf)
    \/ \E i \in 1..MaxTasks, ok \in BOOLEAN : SignUpDone(i, ok)
    \/ \E i \in 1..MaxTasks, ok \in BOOLEAN : SignOutDone(i, ok)

\* every request eventually receives its response (success or error), and
\* every awaited call eventually resumes
SpecLive == InitLive /\ [][Next]_vars /\ WF_vars(Responds)

\* C18: the busy flag is never left stuck: when every request is eventually
\* answered, the system always reaches again a state with no request
\* outstanding and the busy flag off, and whenever no request is outstanding
\* the flag is off.
C18_BusyFlagNeverStuck ==
    /\ [](Idle => ~loading)
    /\ []<>Settled

\* a request was refused by the backend, and the system has settled with the
\* refusal shown
C18_Witness == Settled /\ alert = MsgBackend /\ session # NoUser

----------------------------------------------------------------------------
(* The top-level error boundary: GlobalError and logError *)

MaxErrors == 4      \* rendering errors delivered in one run

\* error.digest: undefined ("none") or the id the framework gave the error
Digests == {"none", "digest"}

\* effect runs at mount: one, or two under React Strict Mode in development
MountRuns == {1, 2}

\* faulty variant of the effect's guard: the ref is not looked at
\* (C19 does not hold of it)
ShouldLog_Always(ref) ==
    TRUE

\* the effect's guard: if (hasLoggedRef.current) return
ShouldLog(ref) == ~ref

ContextTag == "app.errorBoundary"

\* logError(context, error, extra): the object handed to console.error, without
\* its ts field; err.id stands for the error's name, message and stack
logError(context, err, extra) ==
    [prefix |-> "[QuickNotes]", context |-> context, error |-> err.id,
     digest |-> extra.digest]

\* the Home component idle and signed out, while the boundary is looked at
InitBoundary ==
    /\ session = NoUser
    /\ db = {}
    /\ owners = <<>>
    /\ editingId = NoId
    /\ userEmail = NoUser
    /\ notes = <<>>
    /\ title = EmptyStr
    /\ content = EmptyStr
    /\ loading = FALSE
    /\ pending = <<>>
    /\ refreshes = 0
    /\ alert = NoAlert
    /\ clean = Unset
    /\ lastLoad = "ok"
    /\ events = 0
    /\ mounted = TRUE
    /\ handlers = Subscribe(0)
    /\ NoBoundary

\* a rendering error reaches the boundary, which mounts GlobalError with it:
\* useRef(false), and the effect is due (twice under Strict Mode)
Throw(d, runs) ==
    /\ error = NoError
    /\ thrown < MaxErrors
    /\ thrown' = thrown + 1
    /\ error' = [id |-> thrown + 1, digest |-> d]
    /\ hasLoggedRef' = FALSE
    /\ effectQueue' = runs
    /\ UNCHANGED <<log, homeVars>>

\* the effect body runs
RunEffect ==
    /\ effectQueue > 0
    /\ effectQueue' = effectQueue - 1
    /\ IF ShouldLog(hasLoggedRef)
       THEN /\ hasLoggedRef' = TRUE
            /\ log' = Append(log, logError(ContextTag, error, [digest |-> error.digest]))
       ELSE UNCHANGED <<hasLoggedRef, log>>
    /\ UNCHANGED <<error, thrown, homeVars>>

\* Retry is clicked and rendering fails again: the boundary, still mounted,
\* captures the new error, discards the GlobalError it showed and mounts a
\* new one with that error: useRef(false), and the effect is due (twice under
\* Strict Mode)
Rethrow(d, runs) ==
    /\ error # NoError
    /\ effectQueue = 0
    /\ thrown < MaxErrors
    /\ thrown' = thrown + 1
    /\ error' = [id |-> thrown + 1, digest |-> d]
    /\ hasLoggedRef' = FALSE
    /\ effectQueue' = runs
    /\ UNCHANGED <<log, homeVars>>

\* Retry is clicked and rendering succeeds: GlobalError unmounts
Retry ==
    /\ error # NoError
    /\ effectQueue = 0
    /\ error' = NoError
    /\ hasLoggedRef' = FALSE
    /\ UNCHANGED <<effectQueue, log, thrown, homeVars>>

NextBoundary ==
    \/ \E d \in Digests, runs \in MountRuns : Throw(d, runs)
    \/ RunEffect
    \/ \E d \in Digests, runs \in MountRuns : Rethrow(d, runs)
    \/ Retry

SpecBoundary == InitBoundary /\ [][NextBoundary]_vars

----------------------------------------------------------------------------
(* C19 *)

\* log entries written for the error with id e
Entries(e) == {k \in 1..Len(log) : log[k].error = e}

\* C19: every rendering error delivered to the boundary is logged exactly
\* once, under the context tag and with its digest: never twice, also when
\* the effect runs twice, and once as soon as no effect run is due - also for
\* an error that reaches the boundary later, while it is still mounted (after
\* a Retry that failed).
C19_EveryErrorLoggedOnce ==
    /\ \A k \in 1..Len(log) : log[k].context = ContextTag
    /\ \A e \in 1..thrown : Cardinality(Entries(e)) <= 1
    /\ effectQueue = 0 =>
          /\ \A e \in 1..thrown : Cardinality(Entries(e)) = 1
          /\ error # NoError =>
                \E k \in Entries(error.id) : log[k].digest = error.digest

\* C19 witness: a first error was logged, Retry failed with a second error
\* that carries a digest, and both are in the log once
C19_Witness ==
    /\ thrown = 2
    /\ error.id = 2
    /\ error.digest = "digest"
    /\ effectQueue = 0
    /\ hasLoggedRef
    /\ Len(log) = 2
    /\ log[1].error = 1
    /\ log[2] = logError(ContextTag, error, [digest |-> "digest"])

====
